---- MODULE Spec2Model ----
(* A model of src/routes.ts: the DatabaseStorage data-access layer (users,     *)
(* achievements, course progress, quiz attempts, daily activity, the streak   *)
(* scan) and the status its Express handlers answer.  Every `await` on the    *)
(* store is one step of a request, so concurrent requests interleave exactly  *)
(* at the store calls, and a store call may reject.                           *)
EXTENDS Integers, Sequences, FiniteSets, TLC

(* ------------------------------ bounds ---------------------------------- *)
MaxUsers == 1
MaxReq == 2
MaxCalls == 3
MaxSeqCalls == 3
MaxFailCalls == 3
MaxDayCalls == 4
MaxSeqDay == 2
MaxDay == 33
MaxScanLen == 5

(* -------------------------- program constants --------------------------- *)
XpPerLevel == 100
PassScore == 70
SecondsPerMinute == 60
StreakDays == 30
StatusCreated == 201
StatusOk == 200
StatusError == 500
\* attempt.score is a decimal; the model counts it in tenths of a point
ScoreScale == 10

UserIds == 1..MaxUsers
Slots == 1..MaxReq
Topics == {"numbers", "algebra"}

\* initializeUserAchievements: the four rows seeded for a new user
defaultAchievements(userId) ==
    { [userId |-> userId, achievementType |-> "number_master", xpReward |-> 100, unlocked |-> FALSE],
      [userId |-> userId, achievementType |-> "perfect_score", xpReward |-> 250, unlocked |-> FALSE],
      [userId |-> userId, achievementType |-> "streak_master", xpReward |-> 200, unlocked |-> FALSE],
      [userId |-> userId, achievementType |-> "math_graduate", xpReward |-> 500, unlocked |-> FALSE] }

AchievementTypes == { a.achievementType : a \in defaultAchievements(0) }

\* the users row a plain registration inserts (column defaults of the schema)
NewUser == [totalXp |-> 0, level |-> 1, currentStreak |-> 0, longestStreak |-> 0]

\* the courseProgress columns an insert leaves to the schema defaults
DefaultProgress ==
    [score |-> 0, questionsCorrect |-> 0, questionsTotal |-> 0,
     completed |-> FALSE, difficulty |-> 1]

\* whether the store rejects a second row of one (userId, topicId) or (userId, date):
\* the tables carry no such constraint, so both racing inserts go through
UniqueKeyEnforced == FALSE

EmptyObj == [f \in {} |-> 0]

NoAttempt ==
    [userId |-> 0, topicId |-> "", score |-> 0, questionsCorrect |-> 0,
     questionsTotal |-> 0, difficulty |-> 0, timeSpent |-> 0]

VARIABLES
    users,          \* users table: id -> row
    achievements,   \* achievements table: a set of rows
    courseProgress, \* courseProgress table: rows in insertion order (index = id)
    quizAttempts,   \* quizAttempts table: rows in insertion order (index = id)
    dailyActivity,  \* dailyActivity table: rows in insertion order (index = id)
    clock,          \* the current calendar day
    req,            \* the requests in flight: slot -> locals and position
    issued,         \* number of calls made so far
    unlockCalls,    \* history: completed unlockAchievement calls per (user, type)
    passed,         \* history: the values passed to updateDailyActivity per (user, day)
    scan            \* input and result of a bare run of the streak scan

db == <<users, achievements, courseProgress, quizAttempts, dailyActivity>>
vars == <<users, achievements, courseProgress, quizAttempts, dailyActivity,
          clock, req, issued, unlockCalls, passed, scan>>

Idle ==
    [op |-> "idle", pc |-> "idle", userId |-> 0, topicId |-> "",
     achievementType |-> "", updates |-> EmptyObj, activity |-> EmptyObj,
     attempt |-> NoAttempt, today |-> 0, existing |-> <<>>, achievement |-> <<>>,
     activities |-> <<>>, user |-> 0, quizAttempt |-> 0,
     status |-> 0, outcome |-> "", failedAt |-> "", pre |-> <<>>]

(* ------------------------------ helpers --------------------------------- *)
RECURSIVE SumSeq(_)
SumSeq(s) == IF s = <<>> THEN 0 ELSE Head(s) + SumSeq(Tail(s))

Max(a, b) == IF a >= b THEN a ELSE b

\* the handlers' success status: res.status(201) for the two POST routes, res.json otherwise;
\* updateDailyActivity has no route of its own
SuccessStatus(op) ==
    IF op \in {"createUser", "saveQuizAttempt"} THEN StatusCreated
    ELSE IF op = "updateDailyActivity" THEN 0
    ELSE StatusOk

FailureStatus(op) == IF op = "updateDailyActivity" THEN 0 ELSE StatusError

\* the storage method is left: its working locals are gone, what the handler and the
\* caller hold (the arguments, the rows returned to them) stays
Leave(q) ==
    [q EXCEPT !.existing = <<>>, !.activities = <<>>, !.achievement = <<>>,
              !.updates = EmptyObj, !.activity = EmptyObj]

\* mutant of Throw: the handler's catch answers as if the call had succeeded
ThrowAnswersSuccess(q) ==
    [Leave(q) EXCEPT !.pc = "done", !.outcome = "error", !.failedAt = q.pc,
                     !.status = SuccessStatus(q.op)]

\* a rejected store call or a thrown TypeError propagates to the handler's catch
Throw(q) ==
    [Leave(q) EXCEPT !.pc = "done", !.outcome = "error", !.failedAt = q.pc,
                     !.status = FailureStatus(q.op)]

Return(q) ==
    [Leave(q) EXCEPT !.pc = "done", !.outcome = "ok", !.status = SuccessStatus(q.op)]

\* a new request takes the first free slot (the slots are only names for requests)
CanCall(r) == req[r].pc = "idle" /\ \A s \in 1..(r - 1) : req[s].pc # "idle"

Begin(r, q) ==
    /\ req' = [req EXCEPT ![r] = q]
    /\ issued' = issued + 1

(* ------------------------------ createUser ------------------------------ *)
CallCreateUser(r) ==
    /\ CanCall(r)
    /\ Cardinality(DOMAIN users) + Cardinality({s \in Slots : req[s].pc = "insertUser"}) < MaxUsers
    /\ Begin(r, [Idle EXCEPT !.op = "createUser", !.pc = "insertUser"])
    /\ UNCHANGED <<db, clock, unlockCalls, passed, scan>>

\* db.insert(users).values(insertUser).returning()
InsertUser(r) ==
    /\ req[r].pc = "insertUser"
    /\ LET id == Cardinality(DOMAIN users) + 1
       IN  /\ users' = [i \in DOMAIN users \cup {id} |-> IF i = id THEN NewUser ELSE users[i]]
           /\ req' = [req EXCEPT ![r] = [@ EXCEPT !.user = id, !.pc = "seed"]]
    /\ UNCHANGED <<achievements, courseProgress, quizAttempts, dailyActivity,
                   clock, issued, unlockCalls, passed, scan>>

\* initializeUserAchievements(user.id), then return user
SeedAchievements(r) ==
    /\ req[r].pc = "seed"
    /\ achievements' = achievements \cup defaultAchievements(req[r].user)
    /\ req' = [req EXCEPT ![r] = Return(@)]
    /\ UNCHANGED <<users, courseProgress, quizAttempts, dailyActivity,
                   clock, issued, unlockCalls, passed, scan>>

(* --------------------------- unlockAchievement -------------------------- *)
CallUnlockAchievement(r) ==
    /\ CanCall(r)
    /\ \E u \in UserIds, t \in AchievementTypes :
          Begin(r, [Idle EXCEPT !.op = "unlockAchievement", !.pc = "setUnlocked",
                                !.userId = u, !.achievementType = t])
    /\ UNCHANGED <<db, clock, unlockCalls, passed, scan>>

\* mutant of AwardXp: the reward is assigned instead of added
AwardXpAssigned(u, xpReward) ==
    [u EXCEPT !.totalXp = xpReward,
              !.level = (u.totalXp \div XpPerLevel) + 1]

\* the single UPDATE users SET totalXp = ..., level = ...: both right-hand sides
\* are evaluated on the row as it was before the statement
AwardXp(u, xpReward) ==
    [u EXCEPT !.totalXp = u.totalXp + xpReward,
              !.level = (u.totalXp \div XpPerLevel) + 1]

\* update(achievements).set({unlocked: true}).where(...).returning(), then the
\* read of achievement.xpReward, which throws when no row matched
UnlockSetUnlocked(r) ==
    /\ req[r].pc = "setUnlocked"
    /\ LET q == req[r]
           hit == {a \in achievements :
                      a.userId = q.userId /\ a.achievementType = q.achievementType}
       IN  /\ achievements' = (achievements \ hit) \cup {[a EXCEPT !.unlocked = TRUE] : a \in hit}
           /\ IF hit = {}
                THEN /\ req' = [req EXCEPT ![r] = Throw(q)]
                     /\ UNCHANGED unlockCalls
                ELSE LET a == CHOOSE x \in hit : TRUE
                     IN  IF a.xpReward > 0
                           THEN /\ req' = [req EXCEPT ![r] =
                                     [q EXCEPT !.pc = "awardXp", !.achievement = <<a.xpReward>>]]
                                /\ UNCHANGED unlockCalls
                           ELSE /\ req' = [req EXCEPT ![r] = Return(q)]
                                /\ unlockCalls' = [unlockCalls EXCEPT
                                     ![<<q.userId, q.achievementType>>] = @ + 1]
    /\ UNCHANGED <<users, courseProgress, quizAttempts, dailyActivity,
                   clock, issued, passed, scan>>

\* update(users).set({totalXp: totalXp + xpReward, level: FLOOR(totalXp/100)+1}).where(id = userId)
UnlockAwardXp(r) ==
    /\ req[r].pc = "awardXp"
    /\ LET q == req[r]
       IN  /\ users' = [i \in DOMAIN users |->
                          IF i = q.userId THEN AwardXp(users[i], q.achievement[1]) ELSE users[i]]
           /\ req' = [req EXCEPT ![r] = Return(q)]
           /\ unlockCalls' = [unlockCalls EXCEPT ![<<q.userId, q.achievementType>>] = @ + 1]
    /\ UNCHANGED <<achievements, courseProgress, quizAttempts, dailyActivity,
                   clock, issued, passed, scan>>

(* -------------------------- updateCourseProgress ------------------------ *)
\* { ...row, ...updates }: the fields given replace the row's, the others stay
Merge(row, updates) ==
    [f \in DOMAIN row |-> IF f \in DOMAIN updates THEN updates[f] ELSE row[f]]

ProgressKey(row, userId, topicId) == row.userId = userId /\ row.topicId = topicId

ProgressMatches(userId, topicId) ==
    {i \in DOMAIN courseProgress : ProgressKey(courseProgress[i], userId, topicId)}

\* select ... limit(1): no row, or one of the matching rows
SelectOne(matching) == IF matching = {} THEN {<<>>} ELSE {<<i>> : i \in matching}

CallUpdateCourseProgress(r, topics, inputs) ==
    /\ CanCall(r)
    /\ \E u \in DOMAIN users, t \in topics, upd \in inputs :
          Begin(r, [Idle EXCEPT !.op = "updateCourseProgress", !.pc = "cpSelect",
                                !.userId = u, !.topicId = t, !.updates = upd])
    /\ UNCHANGED <<db, clock, unlockCalls, passed, scan>>

ProgressSelect(r) ==
    /\ req[r].pc = "cpSelect"
    /\ \E e \in SelectOne(ProgressMatches(req[r].userId, req[r].topicId)) :
          req' = [req EXCEPT ![r] =
                    [@ EXCEPT !.existing = e,
                              !.pc = IF Len(e) > 0 THEN "cpUpdate" ELSE "cpInsert"]]
    /\ UNCHANGED <<db, clock, issued, unlockCalls, passed, scan>>

\* today = new Date(); today.setHours(0, 0, 0, 0)
Today == clock

OrZero(obj, f) == IF f \in DOMAIN obj /\ obj[f] # 0 THEN obj[f] ELSE 0

ActivityMatches(userId, date) ==
    {i \in DOMAIN dailyActivity :
        dailyActivity[i].userId = userId /\ dailyActivity[i].date = date}

\* what today's rows of the user hold when updateDailyActivity is entered
Held(userId, date) ==
    LET rows == [i \in 1..Len(dailyActivity) |->
                   IF i \in ActivityMatches(userId, date) THEN dailyActivity[i]
                   ELSE [questionsAnswered |-> 0, timeSpent |-> 0, xpEarned |-> 0]]
    IN  <<SumSeq([i \in 1..Len(rows) |-> rows[i].questionsAnswered]),
          SumSeq([i \in 1..Len(rows) |-> rows[i].timeSpent]),
          SumSeq([i \in 1..Len(rows) |-> rows[i].xpEarned])>>

\* the entry of updateDailyActivity(userId, activity)
EnterActivity(q, userId, activity) ==
    [q EXCEPT !.pc = "daSelect", !.userId = userId, !.activity = activity,
              !.today = Today, !.pre = Held(userId, Today)]

NoneGiven == [calls |-> 0, questionsAnswered |-> 0, timeSpent |-> 0, xpEarned |-> 0]

Record(userId, activity) ==
    LET k == <<userId, Today>>
        was == IF k \in DOMAIN passed THEN passed[k] ELSE NoneGiven
        given(f) == IF f \in DOMAIN activity THEN activity[f] ELSE 0
    IN  [j \in DOMAIN passed \cup {k} |->
            IF j = k
              THEN [calls |-> was.calls + 1,
                    questionsAnswered |-> was.questionsAnswered + given("questionsAnswered"),
                    timeSpent |-> was.timeSpent + given("timeSpent"),
                    xpEarned |-> was.xpEarned + given("xpEarned")]
              ELSE passed[j]]

\* saveQuizAttempt's argument to updateDailyActivity
AttemptActivity(attempt) ==
    [questionsAnswered |-> attempt.questionsTotal,
     timeSpent |-> attempt.timeSpent \div SecondsPerMinute,
     xpEarned |-> attempt.score \div ScoreScale]

\* mutant of AttemptProgress: the pass mark itself does not complete the topic
AttemptProgressStrict(attempt) ==
    [score |-> attempt.score,
     questionsCorrect |-> attempt.questionsCorrect,
     questionsTotal |-> attempt.questionsTotal,
     completed |-> attempt.score > PassScore * ScoreScale,
     difficulty |-> attempt.difficulty]

\* saveQuizAttempt's argument to updateCourseProgress
AttemptProgress(attempt) ==
    [score |-> attempt.score,
     questionsCorrect |-> attempt.questionsCorrect,
     questionsTotal |-> attempt.questionsTotal,
     completed |-> attempt.score >= PassScore * ScoreScale,
     difficulty |-> attempt.difficulty]

\* updateCourseProgress returns: to the handler, or to saveQuizAttempt, which goes on
\* to updateDailyActivity
AfterProgress(r) ==
    LET q == req[r]
    IN  IF q.op = "saveQuizAttempt"
          THEN /\ req' = [req EXCEPT ![r] =
                            EnterActivity(q, q.attempt.userId, AttemptActivity(q.attempt))]
               /\ passed' = Record(q.attempt.userId, AttemptActivity(q.attempt))
          ELSE /\ req' = [req EXCEPT ![r] = Return(q)]
               /\ UNCHANGED passed

ProgressUpdate(r) ==
    /\ req[r].pc = "cpUpdate"
    /\ courseProgress' =
          [i \in DOMAIN courseProgress |->
              IF ProgressKey(courseProgress[i], req[r].userId, req[r].topicId)
                THEN Merge(courseProgress[i], req[r].updates)
                ELSE courseProgress[i]]
    /\ AfterProgress(r)
    /\ UNCHANGED <<users, achievements, quizAttempts, dailyActivity,
                   clock, issued, unlockCalls, scan>>

\* insert(courseProgress).values({userId, topicId, ...updates}).returning()
ProgressInsert(r) ==
    /\ req[r].pc = "cpInsert"
    /\ IF UniqueKeyEnforced /\ ProgressMatches(req[r].userId, req[r].topicId) # {}
         THEN /\ req' = [req EXCEPT ![r] = Throw(@)]
              /\ UNCHANGED <<courseProgress, passed>>
         ELSE /\ courseProgress' =
                    Append(courseProgress,
                           Merge([userId |-> req[r].userId, topicId |-> req[r].topicId,
                                  score |-> DefaultProgress.score,
                                  questionsCorrect |-> DefaultProgress.questionsCorrect,
                                  questionsTotal |-> DefaultProgress.questionsTotal,
                                  completed |-> DefaultProgress.completed,
                                  difficulty |-> DefaultProgress.difficulty],
                                 req[r].updates))
              /\ AfterProgress(r)
    /\ UNCHANGED <<users, achievements, quizAttempts, dailyActivity,
                   clock, issued, unlockCalls, scan>>

(* --------------------------- updateDailyActivity ------------------------ *)
CallUpdateDailyActivity(r, inputs) ==
    /\ CanCall(r)
    /\ \E u \in DOMAIN users, act \in inputs :
          /\ Begin(r, EnterActivity([Idle EXCEPT !.op = "updateDailyActivity"], u, act))
          /\ passed' = Record(u, act)
    /\ UNCHANGED <<db, clock, unlockCalls, scan>>

ActivitySelect(r) ==
    /\ req[r].pc = "daSelect"
    /\ \E e \in SelectOne(ActivityMatches(req[r].userId, req[r].today)) :
          req' = [req EXCEPT ![r] =
                    [@ EXCEPT !.existing = e,
                              !.pc = IF Len(e) > 0 THEN "daUpdate" ELSE "daInsert"]]
    /\ UNCHANGED <<db, clock, issued, unlockCalls, passed, scan>>

\* mutant of Accumulate: the row is set to the deltas instead of grown by them
AccumulateOverwrite(row, activity) ==
    [row EXCEPT !.questionsAnswered = OrZero(activity, "questionsAnswered"),
                !.timeSpent = OrZero(activity, "timeSpent"),
                !.xpEarned = OrZero(activity, "xpEarned"),
                !.streakMaintained = TRUE]

\* update(dailyActivity).set({x: x + delta, ..., streakMaintained: true}).where(id = existing[0].id)
Accumulate(row, activity) ==
    [row EXCEPT !.questionsAnswered = @ + OrZero(activity, "questionsAnswered"),
                !.timeSpent = @ + OrZero(activity, "timeSpent"),
                !.xpEarned = @ + OrZero(activity, "xpEarned"),
                !.streakMaintained = TRUE]

ActivityUpdate(r) ==
    /\ req[r].pc = "daUpdate"
    /\ dailyActivity' = [dailyActivity EXCEPT ![req[r].existing[1]] = Accumulate(@, req[r].activity)]
    /\ req' = [req EXCEPT ![r] = Return(@)]
    /\ UNCHANGED <<users, achievements, courseProgress, quizAttempts,
                   clock, issued, unlockCalls, passed, scan>>

NewActivity(userId, today, activity) ==
    [userId |-> userId, date |-> today,
     questionsAnswered |-> OrZero(activity, "questionsAnswered"),
     timeSpent |-> OrZero(activity, "timeSpent"),
     xpEarned |-> OrZero(activity, "xpEarned"),
     streakMaintained |-> TRUE]

ActivityInsert(r) ==
    /\ req[r].pc = "daInsert"
    /\ IF UniqueKeyEnforced /\ ActivityMatches(req[r].userId, req[r].today) # {}
         THEN /\ req' = [req EXCEPT ![r] = Throw(@)]
              /\ UNCHANGED dailyActivity
         ELSE /\ dailyActivity' =
                    Append(dailyActivity,
                           NewActivity(req[r].userId, req[r].today, req[r].activity))
              /\ req' = [req EXCEPT ![r] = [@ EXCEPT !.pc = "streakSelect"]]
    /\ UNCHANGED <<users, achievements, courseProgress, quizAttempts,
                   clock, issued, unlockCalls, passed, scan>>

(* ------------------- getDailyActivity and updateUserStreak -------------- *)
\* date >= startDate, startDate = now - days: a row dated exactly `days` days back
\* (at midnight) is kept only when now is itself midnight
InWindow(date, days, atMidnight) ==
    \/ date > clock - days
    \/ atMidnight /\ date = clock - days

\* orderBy(desc(date)); rows of one date keep their insertion order
RECURSIVE OrderDesc(_)
OrderDesc(S) ==
    IF S = {} THEN <<>>
    ELSE LET i == CHOOSE x \in S :
                    \A y \in S : \/ dailyActivity[x].date > dailyActivity[y].date
                                 \/ dailyActivity[x].date = dailyActivity[y].date /\ x <= y
         IN  <<dailyActivity[i]>> \o OrderDesc(S \ {i})

getDailyActivity(userId, days, atMidnight) ==
    OrderDesc({i \in DOMAIN dailyActivity :
                 /\ dailyActivity[i].userId = userId
                 /\ InWindow(dailyActivity[i].date, days, atMidnight)})

\* the for loop of updateUserStreak over the flags, from index i on (1-based here)
RECURSIVE ScanFrom(_, _, _, _, _)
ScanFrom(flags, i, currentStreak, longestStreak, tempStreak) ==
    IF i > Len(flags)
      THEN [currentStreak |-> currentStreak,
            longestStreak |-> Max(longestStreak, tempStreak)]
      ELSE IF flags[i]
        THEN ScanFrom(flags, i + 1,
                      IF i = 1 THEN tempStreak + 1 ELSE currentStreak,
                      longestStreak, tempStreak + 1)
        ELSE ScanFrom(flags, i + 1, currentStreak, Max(longestStreak, tempStreak), 0)

StreakScan(flags) == ScanFrom(flags, 1, 0, 0, 0)

StreakSelect(r) ==
    /\ req[r].pc = "streakSelect"
    /\ \E atMidnight \in BOOLEAN :
          LET rows == getDailyActivity(req[r].userId, StreakDays, atMidnight)
          IN  req' = [req EXCEPT ![r] =
                        [@ EXCEPT !.activities = [i \in 1..Len(rows) |-> rows[i].streakMaintained],
                                  !.pc = "streakUpdate"]]
    /\ UNCHANGED <<db, clock, issued, unlockCalls, passed, scan>>

\* the scan, then updateUser(userId, {currentStreak, longestStreak, lastActiveDate})
StreakUpdate(r) ==
    /\ req[r].pc = "streakUpdate"
    /\ LET res == StreakScan(req[r].activities)
       IN  users' = [i \in DOMAIN users |->
                       IF i = req[r].userId
                         THEN [users[i] EXCEPT !.currentStreak = res.currentStreak,
                                               !.longestStreak = res.longestStreak]
                         ELSE users[i]]
    /\ req' = [req EXCEPT ![r] = Return(@)]
    /\ UNCHANGED <<achievements, courseProgress, quizAttempts, dailyActivity,
                   clock, issued, unlockCalls, passed, scan>>

(* ------------------------------ saveQuizAttempt ------------------------- *)
CallSaveQuizAttempt(r, topics, inputs) ==
    /\ CanCall(r)
    /\ \E u \in DOMAIN users, t \in topics, a \in inputs :
          Begin(r, [Idle EXCEPT !.op = "saveQuizAttempt", !.pc = "insertAttempt",
                                !.attempt = [a EXCEPT !.userId = u, !.topicId = t]])
    /\ UNCHANGED <<db, clock, unlockCalls, passed, scan>>

\* db.insert(quizAttempts).values(attempt).returning(), then the call of updateCourseProgress
InsertQuizAttempt(r) ==
    /\ req[r].pc = "insertAttempt"
    /\ quizAttempts' = Append(quizAttempts, req[r].attempt)
    /\ req' = [req EXCEPT ![r] =
                 [@ EXCEPT !.quizAttempt = Len(quizAttempts) + 1,
                           !.pc = "cpSelect",
                           !.userId = req[r].attempt.userId,
                           !.topicId = req[r].attempt.topicId,
                           !.updates = AttemptProgress(req[r].attempt)]]
    /\ UNCHANGED <<users, achievements, courseProgress, dailyActivity,
                   clock, issued, unlockCalls, passed, scan>>

(* ------------------------- failure, response, time ---------------------- *)
StoreCalls ==
    {"insertUser", "seed", "setUnlocked", "awardXp", "cpSelect", "cpUpdate", "cpInsert",
     "daSelect", "daUpdate", "daInsert", "streakSelect", "streakUpdate", "insertAttempt"}

\* the store rejects the call the request is waiting on
StoreFails(r) ==
    /\ req[r].pc \in StoreCalls
    /\ req' = [req EXCEPT ![r] = Throw(@)]
    /\ UNCHANGED <<db, clock, issued, unlockCalls, passed, scan>>

\* the response is sent and the request is over
Respond(r) ==
    /\ req[r].pc = "done"
    /\ req' = [req EXCEPT ![r] = Idle]
    /\ UNCHANGED <<db, clock, issued, unlockCalls, passed, scan>>

DayJumps == {1, 2, StreakDays + 1}

\* midnight passes, possibly while a request is under way
Midnight(lastDay) ==
    /\ clock + 1 <= lastDay
    /\ clock' = clock + 1
    /\ UNCHANGED <<db, req, issued, unlockCalls, passed, scan>>

\* days go by on which no request is made
QuietDays(lastDay) ==
    /\ \A r \in Slots : req[r].pc = "idle"
    /\ \E k \in DayJumps :
          /\ clock + k <= lastDay
          /\ clock' = clock + k
    /\ UNCHANGED <<db, req, issued, unlockCalls, passed, scan>>

(* ------------------------------- inputs --------------------------------- *)
ProgressUpdates == { [score |-> 800], [completed |-> TRUE, score |-> 650] }
ActivityInputs == { [questionsAnswered |-> 5], [questionsAnswered |-> 3, timeSpent |-> 2],
                    [xpEarned |-> 10], EmptyObj }
QuizAttempts ==
    { [NoAttempt EXCEPT !.score = 650, !.questionsCorrect = 6, !.questionsTotal = 10,
                        !.difficulty = 1, !.timeSpent = 59],
      [NoAttempt EXCEPT !.score = 699, !.questionsCorrect = 7, !.questionsTotal = 10,
                        !.difficulty = 2, !.timeSpent = 60],
      [NoAttempt EXCEPT !.score = 700, !.questionsCorrect = 7, !.questionsTotal = 10,
                        !.difficulty = 2, !.timeSpent = 125],
      [NoAttempt EXCEPT !.score = 750, !.questionsCorrect = 3, !.questionsTotal = 4,
                        !.difficulty = 3, !.timeSpent = 0] }

ConcTopics == {"numbers"}
ConcProgressUpdates == { [score |-> 800] }
ConcActivityInputs == { [questionsAnswered |-> 5] }
ConcQuizAttempts ==
    { [NoAttempt EXCEPT !.score = 750, !.questionsCorrect = 3, !.questionsTotal = 4,
                        !.difficulty = 3, !.timeSpent = 125] }

(* ---------------------------- specifications ---------------------------- *)
Init ==
    /\ users = [i \in {} |-> NewUser]
    /\ achievements = {}
    /\ courseProgress = <<>>
    /\ quizAttempts = <<>>
    /\ dailyActivity = <<>>
    /\ clock = 1
    /\ req = [r \in Slots |-> Idle]
    /\ issued = 0
    /\ unlockCalls = [k \in UserIds \X AchievementTypes |-> 0]
    /\ passed = [k \in {} |-> NoneGiven]
    /\ scan = [flags |-> <<>>, done |-> FALSE, currentStreak |-> 0, longestStreak |-> 0]

UserSteps(r) ==
    \/ InsertUser(r)
    \/ SeedAchievements(r)

UnlockSteps(r) ==
    \/ UnlockSetUnlocked(r)
    \/ UnlockAwardXp(r)

ProgressSteps(r) ==
    \/ ProgressSelect(r)
    \/ ProgressUpdate(r)
    \/ ProgressInsert(r)

ActivitySteps(r) ==
    \/ ActivitySelect(r)
    \/ ActivityUpdate(r)
    \/ ActivityInsert(r)
    \/ StreakSelect(r)
    \/ StreakUpdate(r)

\* concurrent requests, interleaved at every store call, any of which may fail
Next ==
    \E r \in Slots :
        \/ issued < MaxCalls /\ CallCreateUser(r)
        \/ issued < MaxCalls /\ CallUnlockAchievement(r)
        \/ issued < MaxCalls /\ CallUpdateCourseProgress(r, ConcTopics, ConcProgressUpdates)
        \/ issued < MaxCalls /\ CallUpdateDailyActivity(r, ConcActivityInputs)
        \/ issued < MaxCalls /\ CallSaveQuizAttempt(r, ConcTopics, ConcQuizAttempts)
        \/ UserSteps(r)
        \/ UnlockSteps(r)
        \/ ProgressSteps(r)
        \/ ActivitySteps(r)
        \/ InsertQuizAttempt(r)
        \/ StoreFails(r)
        \/ Respond(r)

Spec == Init /\ [][Next]_vars

\* concurrent createUser and unlockAchievement requests, any store call of which may fail
NextUnlock ==
    \E r \in Slots :
        \/ issued < MaxCalls /\ CallCreateUser(r)
        \/ issued < MaxCalls /\ CallUnlockAchievement(r)
        \/ UserSteps(r)
        \/ UnlockSteps(r)
        \/ StoreFails(r)
        \/ Respond(r)

SpecUnlock == Init /\ [][NextUnlock]_vars

\* concurrent createUser and saveQuizAttempt requests, any store call of which may fail
NextFail ==
    \E r \in Slots :
        \/ issued < MaxFailCalls /\ CallCreateUser(r)
        \/ issued < MaxFailCalls /\ CallSaveQuizAttempt(r, ConcTopics, ConcQuizAttempts)
        \/ UserSteps(r)
        \/ InsertQuizAttempt(r)
        \/ ProgressSteps(r)
        \/ ActivitySteps(r)
        \/ StoreFails(r)
        \/ Respond(r)

SpecFail == Init /\ [][NextFail]_vars

\* one request at a time: each call runs to its response before the next is made
NextSeq ==
    \/ issued < MaxSeqCalls /\ CallCreateUser(1)
    \/ issued < MaxSeqCalls /\ CallUpdateCourseProgress(1, Topics, ProgressUpdates)
    \/ issued < MaxSeqCalls /\ CallUpdateDailyActivity(1, ActivityInputs)
    \/ issued < MaxSeqCalls /\ CallSaveQuizAttempt(1, Topics, QuizAttempts)
    \/ UserSteps(1)
    \/ ProgressSteps(1)
    \/ ActivitySteps(1)
    \/ InsertQuizAttempt(1)
    \/ Respond(1)
    \/ Midnight(MaxSeqDay)

SpecSeq == Init /\ [][NextSeq]_vars

\* one user's activity, one call at a time, over days that advance with gaps
NextDays ==
    \/ issued < MaxDayCalls /\ CallCreateUser(1)
    \/ issued < MaxDayCalls /\ CallUpdateDailyActivity(1, ConcActivityInputs)
    \/ UserSteps(1)
    \/ ActivitySteps(1)
    \/ Respond(1)
    \/ QuietDays(MaxDay)

SpecDays == Init /\ [][NextDays]_vars

\* the streak scan alone, on every sequence of flags up to MaxScanLen
FlagSeqs == UNION { [1..n -> BOOLEAN] : n \in 0..MaxScanLen }

InitScan ==
    /\ users = [i \in {} |-> NewUser]
    /\ achievements = {}
    /\ courseProgress = <<>>
    /\ quizAttempts = <<>>
    /\ dailyActivity = <<>>
    /\ clock = 1
    /\ req = [r \in Slots |-> Idle]
    /\ issued = 0
    /\ unlockCalls = [k \in UserIds \X AchievementTypes |-> 0]
    /\ passed = [k \in {} |-> NoneGiven]
    /\ \E f \in FlagSeqs :
          scan = [flags |-> f, done |-> FALSE, currentStreak |-> 0, longestStreak |-> 0]

RunScan ==
    /\ ~scan.done
    /\ LET res == StreakScan(scan.flags)
       IN  scan' = [scan EXCEPT !.done = TRUE,
                                !.currentStreak = res.currentStreak,
                                !.longestStreak = res.longestStreak]
    /\ UNCHANGED <<db, clock, req, issued, unlockCalls, passed>>

SpecScan == InitScan /\ [][RunScan]_vars

(* ------------------------------- claims --------------------------------- *)
XpRewardOf(t) == (CHOOSE a \in defaultAchievements(0) : a.achievementType = t).xpReward

Unlocked(u) == {a \in achievements : a.userId = u /\ a.unlocked}

RECURSIVE SumRewards(_)
SumRewards(S) ==
    IF S = {} THEN 0
    ELSE LET a == CHOOSE x \in S : TRUE
         IN  a.xpReward + SumRewards(S \ {a})

RECURSIVE SumCalls(_, _)
SumCalls(u, T) ==
    IF T = {} THEN 0
    ELSE LET t == CHOOSE x \in T : TRUE
         IN  unlockCalls[<<u, t>>] * XpRewardOf(t) + SumCalls(u, T \ {t})

\* C1: every completed unlockAchievement call that awards XP adds xpReward to the
\* user's totalXp and leaves the stored level equal to floor(totalXp/100)+1 of the
\* new totalXp.
C1_LevelFromNewXp ==
    [][\A r \in Slots :
          (req[r].pc = "awardXp" /\ req'[r].outcome = "ok" /\ req[r].userId \in DOMAIN users)
          => LET u == req[r].userId
             IN  /\ users'[u].totalXp = users[u].totalXp + XpRewardOf(req[r].achievementType)
                 /\ users'[u].level = (users'[u].totalXp \div 100) + 1]_vars

\* C2: the streak scan stores currentStreak = the length of the run of maintained
\* rows that starts at the most recent row, and longestStreak = the longest run of
\* maintained rows of the scan.
LeadingRun(f) ==
    CHOOSE n \in 0..Len(f) :
        /\ \A i \in 1..n : f[i]
        /\ n < Len(f) => ~f[n + 1]

LongestRun(f) ==
    CHOOSE n \in 0..Len(f) :
        /\ \E a \in 1..(Len(f) + 1) : a + n - 1 <= Len(f) /\ \A i \in a..(a + n - 1) : f[i]
        /\ \A m \in (n + 1)..Len(f) :
              ~\E a \in 1..Len(f) : a + m - 1 <= Len(f) /\ \A i \in a..(a + m - 1) : f[i]

C2_ScanRuns ==
    scan.done => /\ scan.currentStreak = LeadingRun(scan.flags)
                 /\ scan.longestStreak = LongestRun(scan.flags)

\* C3: there is at most one courseProgress row per (userId, topicId) and at most one
\* dailyActivity row per (userId, day), whatever the interleaving of the requests.
C3_OneRowPerKey ==
    /\ \A i, j \in DOMAIN courseProgress :
          (courseProgress[i].userId = courseProgress[j].userId
             /\ courseProgress[i].topicId = courseProgress[j].topicId) => i = j
    /\ \A i, j \in DOMAIN dailyActivity :
          (dailyActivity[i].userId = dailyActivity[j].userId
             /\ dailyActivity[i].date = dailyActivity[j].date) => i = j

\* C4: the xpReward of an achievement is added to the user's totalXp at most once:
\* totalXp never exceeds the sum of the rewards of the user's unlocked achievements.
C4_RewardAtMostOnce ==
    \A u \in DOMAIN users : users[u].totalXp <= SumRewards(Unlocked(u))

\* C5: no XP award is lost: when no unlockAchievement call for a user is in flight,
\* the user's totalXp is the sum of the xpReward of every completed call.
UnlockInFlight(u) ==
    \E r \in Slots : req[r].userId = u /\ req[r].pc \in {"setUnlocked", "awardXp"}

C5_NoLostAward ==
    \A u \in DOMAIN users :
        ~UnlockInFlight(u) => users[u].totalXp = SumCalls(u, AchievementTypes)

C5_Witness ==
    \E u \in DOMAIN users :
        /\ \A r \in Slots : /\ req[r].op = "unlockAchievement"
                            /\ req[r].userId = u
                            /\ req[r].outcome = "ok"
        /\ \E r, s \in Slots : req[r].achievementType # req[s].achievementType
        /\ users[u].totalXp > 0

\* C6: once updateUserStreak has run, currentStreak is the number of consecutive
\* calendar days with an activity row, counted back from the most recent such day.
ActiveDays(u) == {dailyActivity[i].date : i \in {j \in DOMAIN dailyActivity : dailyActivity[j].userId = u}}

LastActive(u) == CHOOSE d \in ActiveDays(u) : \A e \in ActiveDays(u) : e <= d

ConsecutiveDays(u) ==
    CHOOSE n \in 1..MaxDay :
        /\ \A k \in 0..(n - 1) : (LastActive(u) - k) \in ActiveDays(u)
        /\ (LastActive(u) - n) \notin ActiveDays(u)

C6_StreakCountsDays ==
    \A u \in DOMAIN users :
        (req[1].pc \in {"idle", "done"} /\ req[1].outcome # "error" /\ ActiveDays(u) # {})
        => users[u].currentStreak = ConsecutiveDays(u)

\* C7: after non-overlapping updateDailyActivity calls, each (user, day) that was
\* passed values has a single row, holding the sums of the values passed and
\* streakMaintained = TRUE.
C7_DailySums ==
    req[1].pc \in {"idle", "done"} =>
        /\ \A i \in DOMAIN dailyActivity :
              <<dailyActivity[i].userId, dailyActivity[i].date>> \in DOMAIN passed
        /\ \A k \in DOMAIN passed :
              LET rows == ActivityMatches(k[1], k[2])
              IN  /\ Cardinality(rows) = 1
                  /\ \A i \in rows :
                        /\ dailyActivity[i].questionsAnswered = passed[k].questionsAnswered
                        /\ dailyActivity[i].timeSpent = passed[k].timeSpent
                        /\ dailyActivity[i].xpEarned = passed[k].xpEarned
                        /\ dailyActivity[i].streakMaintained

C7_Witness ==
    /\ req[1].pc = "done"
    /\ req[1].op = "updateDailyActivity"
    /\ \E k \in DOMAIN passed :
          /\ passed[k].calls = 2
          /\ \E i \in ActivityMatches(k[1], k[2]) :
                dailyActivity[i].questionsAnswered = 8 /\ dailyActivity[i].timeSpent = 2

\* C8: when saveQuizAttempt(a) has completed, the progress row of (a.userId, a.topicId)
\* holds the attempt's score, questionsCorrect, questionsTotal and difficulty and
\* completed = (a.score >= 70), and today's activity row has grown by questionsTotal,
\* floor(timeSpent/60) and floor(score).
C8_AttemptEffects ==
    (req[1].op = "saveQuizAttempt" /\ req[1].pc = "done" /\ req[1].outcome = "ok") =>
        LET a == req[1].attempt
            rows == ProgressMatches(a.userId, a.topicId)
            now == Held(a.userId, req[1].today)
        IN  /\ rows # {}
            /\ \A i \in rows :
                  /\ courseProgress[i].score = a.score
                  /\ courseProgress[i].questionsCorrect = a.questionsCorrect
                  /\ courseProgress[i].questionsTotal = a.questionsTotal
                  /\ courseProgress[i].difficulty = a.difficulty
                  /\ courseProgress[i].completed = (a.score >= 70 * ScoreScale)
            /\ ActivityMatches(a.userId, req[1].today) # {}
            /\ now[1] = req[1].pre[1] + a.questionsTotal
            /\ now[2] = req[1].pre[2] + (a.timeSpent \div 60)
            /\ now[3] = req[1].pre[3] + (a.score \div ScoreScale)

C8_Witness ==
    /\ req[1].op = "saveQuizAttempt" /\ req[1].pc = "done" /\ req[1].outcome = "ok"
    /\ req[1].attempt.score = 70 * ScoreScale
    /\ req[1].pre[1] > 0
    /\ \E i \in DOMAIN quizAttempts :
          /\ i < req[1].quizAttempt
          /\ quizAttempts[i].userId = req[1].attempt.userId
          /\ quizAttempts[i].topicId = req[1].attempt.topicId
          /\ quizAttempts[i].score < 70 * ScoreScale

\* C9: a store call that fails partway through createUser or saveQuizAttempt ends the
\* operation in an error answered with status 500; the failing step writes nothing,
\* the writes committed before it stay (the user row without its achievements, the
\* quiz attempt), and the operation takes no further step.
Failed(r) == req[r].op \in {"createUser", "saveQuizAttempt"} /\ req[r].outcome = "error"

C9_FailedState(r) ==
    /\ req[r].pc = "done"
    /\ req[r].status = 500
    /\ (req[r].op = "createUser" /\ req[r].failedAt = "seed") =>
          /\ req[r].user \in DOMAIN users
          /\ ~\E a \in achievements : a.userId = req[r].user
    /\ (req[r].op = "saveQuizAttempt" /\ req[r].failedAt # "insertAttempt") =>
          /\ req[r].quizAttempt \in DOMAIN quizAttempts
          /\ quizAttempts[req[r].quizAttempt] = req[r].attempt

C9_NoRollback ==
    /\ [](\A r \in Slots : Failed(r) => C9_FailedState(r))
    /\ [][\A r \in Slots :
             /\ (~Failed(r) /\ Failed(r)') => UNCHANGED db
             /\ Failed(r) => (req'[r] = req[r] \/ req'[r].op = "idle")]_vars

C9_Witness ==
    /\ \E r \in Slots : /\ Failed(r) /\ req[r].op = "createUser" /\ req[r].failedAt = "seed"
                        /\ req[r].user \in DOMAIN users
    /\ \E r \in Slots : /\ Failed(r) /\ req[r].op = "saveQuizAttempt"
                        /\ req[r].failedAt \in {"cpSelect", "cpInsert", "daSelect", "daInsert"}

\* C10: longestStreak never decreases.
C10_LongestNeverDecreases ==
    [][\A u \in DOMAIN users : users'[u].longestStreak >= users[u].longestStreak]_vars

====
